---- MODULE Spec2Model ----
(***************************************************************************)
(* A model of the Google Sheets batch-transfer pipeline (SheetsProcessor): *)
(* RateLimiter.throttle, retryOperation, processBatch, cleanData,          *)
(* updateDestination / updateDestinationInChunks and run, in the two       *)
(* variants the repository holds (src/index.js and src/unnamed/part_001).  *)
(*                                                                         *)
(* The module holds several specifications over one set of variables:      *)
(*   SpecRetry     retryOperation alone, for every maxRetries and every    *)
(*                 pattern of failing attempts;                            *)
(*   SpecThrottle  the shared RateLimiter under a clock, with the          *)
(*                 concurrent callers of one batch;                        *)
(*   SpecWrite     updateDestinationInChunks alone, for every dataset      *)
(*                 length and every pattern of failing remote calls;       *)
(*   SpecWriteLossy  the same, where a call may also take effect and yet   *)
(*                 be reported as failed;                                  *)
(*   Spec          run(): configuration, batches of concurrent jobs,       *)
(*                 cleaning, writing, status logging, failure handler;     *)
(*   SpecLive      Spec, where in addition every pending step is taken;    *)
(*   SpecClean     cleanData alone, applied and applied again to every     *)
(*                 small row set;                                          *)
(*   SpecTransfer  the single-source transfer script                       *)
(*                 (src/unnamed/part_000), run several times in a row.     *)
(* A specification leaves the variables of the others at their idle value. *)
(***************************************************************************)
EXTENDS Integers, Sequences, FiniteSets, TLC

VARIABLES
    \* ---- retryOperation alone
    rx,            \* the retry record of the call under study
    rxHist,        \* the outcomes of the operation's calls so far, in order
    \* ---- RateLimiter under a clock
    now,           \* Date.now()
    lastRequest,   \* RateLimiter.lastRequest
    tpc,           \* per caller: "idle", "sleeping"
    wakeAt,        \* per caller: when its sleep timer is due
    tcalls,        \* per caller: throttle() calls returned so far
    lastReturn,    \* time of the latest throttle() return (-1: none yet)
    minGap,        \* smallest distance seen between two throttle() returns
    \* ---- the program variant, the writer and the remote destination
    variant,       \* "index" (src/index.js) or "part001" (src/unnamed/part_001)
    w,             \* updateDestination[InChunks]: position, dataset, offset, retry
    dest,          \* the rows the remote destination range holds
    issued,        \* the clear/update/append calls issued on it, in order
    \* ---- run()
    pc,            \* where run() stands
    outcome,       \* "running", or how run()'s promise settled
    cr,            \* the retry record of run()'s own remote call
    config,        \* the remote configuration table
    rows,          \* the configuration rows run() read
    bi,            \* the batch loop's offset i
    job,           \* per configuration row: the job's phase, retry, value
    settleOrder,   \* the jobs of the batch in flight, in the order they settled
    finalData,     \* the aggregate dataset
    processedCount,
    errorCount,
    slog,          \* the S_LOG appends attempted: destination, message, result, job
    configReads,   \* calls of getConfigurationData
    statsReported, \* "Final Statistics" was logged
    thrown,        \* the error run()'s catch block caught
    \* ---- cleanData alone
    cin,           \* the argument of the first call
    cout,          \* the result of the latest call
    cprev,         \* the argument of the latest call
    cpass,         \* calls made so far, each on the result of the one before
    \* ---- the transfer script (part_000)
    sheet,         \* the destination sheet 'DB': row number -> row (<< >>: blank)
    mpc,           \* where main() stands: "idle" (not running), "clear", "write"
    cleanedData,   \* main's cleanedData
    runs,          \* runs of the script started so far
    runFailed      \* a remote call of the latest run failed

varsRetry == <<rx, rxHist>>
varsThrottle == <<now, lastRequest, tpc, wakeAt, tcalls, lastReturn, minGap>>
varsWrite == <<w, dest, issued>>
varsRun == <<pc, outcome, cr, config, rows, bi, job, settleOrder, finalData,
             processedCount, errorCount, slog, configReads, statsReported, thrown>>
varsClean == <<cin, cout, cprev, cpass>>
varsTransfer == <<sheet, mpc, cleanedData, runs, runFailed>>
vars == <<varsRetry, varsThrottle, variant, varsWrite, varsRun, varsClean, varsTransfer>>

Undefined == "undefined"

Min(a, b) == IF a < b THEN a ELSE b

RECURSIVE Pow2(_)
Pow2(n) == IF n <= 0 THEN 1 ELSE 2 * Pow2(n - 1)

(***************************************************************************)
(* CONFIG of the program. MAX_RETRIES keeps its value; the sizes and the   *)
(* delay are scaled down (BATCH_SIZE 10, CHUNK_SIZE 5000 / 3000,           *)
(* RATE_LIMIT_DELAY 100 ms in the source) so that several batches, several *)
(* chunks and several clock ticks fit in the model.                        *)
(***************************************************************************)
MAX_RETRIES == 3
BATCH_SIZE == 2
CHUNK_SIZE == 2
RATE_LIMIT_DELAY == 2

\* Bounds of the model.
MaxAttempts == 7     \* SpecRetry: maxRetries ranges over 1..MaxAttempts
MaxTime == 7         \* SpecThrottle: the clock stops here
NumCallers == 2      \* SpecThrottle: concurrent callers of throttle()
MaxCalls == 2        \* SpecThrottle: throttle() calls per caller
MaxData == 5         \* SpecWrite: the dataset has 0..MaxData rows
MaxOld == 3          \* SpecWrite: rows the destination holds before the run
MaxJobs == 3         \* Spec: the configuration table has 0..MaxJobs rows
MaxCleanRows == 2    \* SpecClean: the row set has 0..MaxCleanRows rows
MaxWidth == 2        \* SpecClean: a row has 0..MaxWidth cells
MaxCells == 4        \* SpecClean: the row set has at most MaxCells cells in all
MaxPasses == 2       \* SpecClean: cleanData is applied up to MaxPasses times
MaxSrcRows == 2      \* SpecTransfer: the source range holds 0..MaxSrcRows rows
MaxRuns == 2         \* SpecTransfer: the script is run up to MaxRuns times

(***************************************************************************)
(* retryOperation(operation, maxRetries)                                   *)
(***************************************************************************)
\* The outcome of one call of the wrapped operation.
Ok(v) == [ok |-> TRUE, value |-> v, error |-> Undefined]
Fail(e) == [ok |-> FALSE, value |-> Undefined, error |-> e]

\* const delay = Math.min(1000 * Math.pow(2, attempt - 1), 10000)
\* Faulty variant: the delay is not capped.
BackoffUncapped(attempt) == 1000 * Pow2(attempt - 1)

Backoff(attempt) == Min(1000 * Pow2(attempt - 1), 10000)

\* let lastError; for (let attempt = 1; attempt <= maxRetries; ...
\* A loop that never runs falls through to `throw lastError` (undefined).
RetryOperationStart(maxRetries) ==
    [ attempt   |-> 1,
      max       |-> maxRetries,
      status    |-> IF 1 <= maxRetries THEN "running" ELSE "threw",
      value     |-> Undefined,
      lastError |-> Undefined,
      throttles |-> 0,
      calls     |-> 0,
      sleeps    |-> << >> ]

\* One pass of the loop body, the operation's call ending in `out`:
\* throttle, call, and on failure either break (and throw lastError) or
\* back off and go round again.
\* Faulty variant: the exhaustion test is off by one (attempt > maxRetries).
RetryAttemptExtra(r, out) ==
    LET t == [r EXCEPT !.throttles = @ + 1, !.calls = @ + 1] IN
    IF out.ok
    THEN [t EXCEPT !.status = "returned", !.value = out.value]
    ELSE IF r.attempt > r.max
         THEN [t EXCEPT !.lastError = out.error, !.status = "threw"]
         ELSE [t EXCEPT !.lastError = out.error,
                        !.sleeps = Append(@, Backoff(r.attempt)),
                        !.attempt = @ + 1]

\* Faulty variant: throttle is called before the first attempt only.
RetryAttemptThrottleOnce(r, out) ==
    LET t == [r EXCEPT !.throttles = IF r.attempt = 1 THEN @ + 1 ELSE @,
                       !.calls = @ + 1] IN
    IF out.ok
    THEN [t EXCEPT !.status = "returned", !.value = out.value]
    ELSE IF r.attempt = r.max
         THEN [t EXCEPT !.lastError = out.error, !.status = "threw"]
         ELSE [t EXCEPT !.lastError = out.error,
                        !.sleeps = Append(@, Backoff(r.attempt)),
                        !.attempt = @ + 1]

\* Faulty variant: after the last attempt the loop starts over (attempt = 1).
RetryAttemptStartsOver(r, out) ==
    LET t == [r EXCEPT !.throttles = @ + 1, !.calls = @ + 1] IN
    IF out.ok
    THEN [t EXCEPT !.status = "returned", !.value = out.value]
    ELSE IF r.attempt = r.max
         THEN RetryOperationStart(r.max)
         ELSE [t EXCEPT !.lastError = out.error,
                        !.sleeps = Append(@, Backoff(r.attempt)),
                        !.attempt = @ + 1]

\* The loop body as the source has it.
RetryOperationAttempt(r, out) ==
    LET t == [r EXCEPT !.throttles = @ + 1, !.calls = @ + 1] IN
    IF out.ok
    THEN [t EXCEPT !.status = "returned", !.value = out.value]
    ELSE IF r.attempt = r.max
         THEN [t EXCEPT !.lastError = out.error, !.status = "threw"]
         ELSE [t EXCEPT !.lastError = out.error,
                        !.sleeps = Append(@, Backoff(r.attempt)),
                        !.attempt = @ + 1]

\* throw lastError: what an exhausted retryOperation raises.
Raised(r) == r.lastError

\* The operations SpecRetry wraps: each call returns a value or raises.
RetryValues == {"v1", "v2"}
RetryErrors == {"e1", "e2"}
RetryOutcomes == {Ok(v) : v \in RetryValues} \cup {Fail(e) : e \in RetryErrors}

\* No call of retryOperation under way.
NoRetry ==
    [ attempt |-> 0, max |-> 0, status |-> "idle", value |-> Undefined,
      lastError |-> Undefined, throttles |-> 0, calls |-> 0, sleeps |-> << >> ]

RetryIdle == rx = NoRetry /\ rxHist = << >>

InitRetry ==
    /\ \E m \in 1..MaxAttempts : rx = RetryOperationStart(m)
    /\ rxHist = << >>

RetryAttempt ==
    /\ rx.status = "running"
    /\ \E out \in RetryOutcomes :
          /\ rx' = RetryOperationAttempt(rx, out)
          /\ rxHist' = Append(rxHist, out)

(***************************************************************************)
(* RateLimiter.throttle under a clock. The synchronous part of throttle()  *)
(* (up to its await) is one step; the part after the timer is another.     *)
(***************************************************************************)
Callers == 1..NumCallers

ThrottleIdle ==
    /\ now = 0 /\ lastRequest = 0 /\ lastReturn = -1 /\ minGap = -1
    /\ tpc = << >> /\ wakeAt = << >> /\ tcalls = << >>

\* Date.now() is far beyond `delay` when the process starts, lastRequest is 0.
InitThrottle ==
    /\ now = RATE_LIMIT_DELAY
    /\ lastRequest = 0
    /\ tpc = [c \in Callers |-> "idle"]
    /\ wakeAt = [c \in Callers |-> 0]
    /\ tcalls = [c \in Callers |-> 0]
    /\ lastReturn = -1
    /\ minGap = -1

\* Ghost: throttle() returns to caller c at the current time.
ThrottleReturned(c) ==
    /\ tcalls' = [tcalls EXCEPT ![c] = @ + 1]
    /\ lastReturn' = now
    /\ minGap' = IF lastReturn < 0 THEN minGap
                 ELSE IF minGap < 0 THEN now - lastReturn
                 ELSE Min(minGap, now - lastReturn)

\* const now = Date.now(); const timeSinceLastRequest = now - this.lastRequest;
\* if (timeSinceLastRequest < this.delay) await this.sleep(...)
\* else this.lastRequest = Date.now()
ThrottleCall(c) ==
    /\ tpc[c] = "idle"
    /\ tcalls[c] < MaxCalls
    /\ LET timeSinceLastRequest == now - lastRequest IN
       IF timeSinceLastRequest < RATE_LIMIT_DELAY
       THEN /\ tpc' = [tpc EXCEPT ![c] = "sleeping"]
            /\ wakeAt' = [wakeAt EXCEPT ![c] = now + (RATE_LIMIT_DELAY - timeSinceLastRequest)]
            /\ UNCHANGED <<lastRequest, tcalls, lastReturn, minGap>>
       ELSE /\ lastRequest' = now
            /\ ThrottleReturned(c)
            /\ UNCHANGED <<tpc, wakeAt>>
    /\ UNCHANGED now

\* The timer fired (never early): this.lastRequest = Date.now()
ThrottleWake(c) ==
    /\ tpc[c] = "sleeping"
    /\ now >= wakeAt[c]
    /\ lastRequest' = now
    /\ tpc' = [tpc EXCEPT ![c] = "idle"]
    /\ ThrottleReturned(c)
    /\ UNCHANGED <<now, wakeAt>>

Tick ==
    /\ now < MaxTime
    /\ now' = now + 1
    /\ UNCHANGED <<lastRequest, tpc, wakeAt, tcalls, lastReturn, minGap>>

(***************************************************************************)
(* The remote destination range (RemoteTableClient of the googleapis       *)
(* client): clear empties it, update overwrites from its first row, append *)
(* adds after the rows it holds.                                           *)
(***************************************************************************)
Variants == {"index", "part001"}

RemoteClear(d) == << >>
RemoteUpdate(d, rs) == rs \o SubSeq(d, Len(rs) + 1, Len(d))
RemoteAppend(d, rs) == d \o rs

RemoteApply(d, call) ==
    CASE call.op = "clear"  -> RemoteClear(d)
      [] call.op = "update" -> RemoteUpdate(d, call.rows)
      [] call.op = "append" -> RemoteAppend(d, call.rows)

\* data.slice(from, to), 0-based, `to` excluded and clipped to the length.
Slice(data, from, to) == SubSeq(data, from + 1, Min(to, Len(data)))

(***************************************************************************)
(* updateDestination and updateDestinationInChunks                         *)
(***************************************************************************)
NoWriter ==
    [ pc |-> "idle", mode |-> "none", target |-> [id |-> Undefined, range |-> Undefined],
      data |-> << >>, i |-> 0, r |-> NoRetry,
      error |-> Undefined, failedAt |-> "none", paces |-> 0 ]

WriteIdle == w = NoWriter /\ dest = << >> /\ issued = << >>

\* if (data.length <= CONFIG.CHUNK_SIZE) return await this.updateDestination(...)
\* and in either path the first remote call is the clear.
WriterEntry(target, data) ==
    [ pc       |-> "clear",
      target   |-> target,
      mode     |-> IF Len(data) <= CHUNK_SIZE THEN "single" ELSE "chunked",
      data     |-> data,
      i        |-> 0,
      r        |-> RetryOperationStart(MAX_RETRIES),
      error    |-> Undefined,
      failedAt |-> "none",
      paces    |-> 0 ]

\* const chunk = data.slice(i, i + CONFIG.CHUNK_SIZE)
\* Faulty variant: slice(i, i + CHUNK_SIZE + 1), chunks overlap by one row.
ChunkOverlapping(data, i) == Slice(data, i, i + CHUNK_SIZE + 1)

Chunk(data, i) == Slice(data, i, i + CHUNK_SIZE)

\* The remote call the writer's current retryOperation wraps.
WriterCall(ws) ==
    IF ws.pc = "clear" THEN [op |-> "clear", rows |-> << >>]
    ELSE IF ws.mode = "single" THEN [op |-> "update", rows |-> ws.data]
    ELSE [ op   |-> IF ws.i = 0 THEN "update" ELSE "append",
           rows |-> Chunk(ws.data, ws.i) ]

\* The writer after one attempt of its current call ended in `out`.
\* part_001 sleeps 1000 ms after every chunk written; index.js does not.
\* Faulty variant: a chunk whose write failed for good is skipped and the
\* loop goes on.
WriterStepSwallow(ws, out) ==
    LET r2 == RetryOperationAttempt(ws.r, out)
        i2 == ws.i + CHUNK_SIZE
        p2 == IF variant = "part001" THEN ws.paces + 1 ELSE ws.paces
        next == IF i2 < Len(ws.data)
                THEN [ws EXCEPT !.i = i2, !.paces = p2,
                                !.r = RetryOperationStart(MAX_RETRIES)]
                ELSE [ws EXCEPT !.pc = "done", !.i = i2, !.paces = p2, !.r = r2]
    IN
    CASE r2.status = "running" -> [ws EXCEPT !.r = r2]
      [] r2.status = "threw" ->
            IF ws.pc = "write" /\ ws.mode = "chunked"
            THEN next
            ELSE [ws EXCEPT !.r = r2, !.pc = "threw", !.error = r2.lastError,
                            !.failedAt = ws.pc]
      [] r2.status = "returned" ->
            IF ws.pc = "clear"
            THEN [ws EXCEPT !.pc = "write", !.r = RetryOperationStart(MAX_RETRIES)]
            ELSE IF ws.mode = "single"
            THEN [ws EXCEPT !.pc = "done", !.r = r2]
            ELSE next

\* Faulty variant: a clear that failed for good is logged and the write goes
\* on without it.
WriterStepIgnoreClearFailure(ws, out) ==
    LET r2 == RetryOperationAttempt(ws.r, out)
        i2 == ws.i + CHUNK_SIZE
        p2 == IF variant = "part001" THEN ws.paces + 1 ELSE ws.paces
    IN
    CASE r2.status = "running" -> [ws EXCEPT !.r = r2]
      [] r2.status = "threw" ->
            IF ws.pc = "clear"
            THEN [ws EXCEPT !.pc = "write", !.r = RetryOperationStart(MAX_RETRIES)]
            ELSE [ws EXCEPT !.r = r2, !.pc = "threw", !.error = r2.lastError,
                            !.failedAt = ws.pc]
      [] r2.status = "returned" ->
            IF ws.pc = "clear"
            THEN [ws EXCEPT !.pc = "write", !.r = RetryOperationStart(MAX_RETRIES)]
            ELSE IF ws.mode = "single"
            THEN [ws EXCEPT !.pc = "done", !.r = r2]
            ELSE IF i2 < Len(ws.data)
            THEN [ws EXCEPT !.i = i2, !.paces = p2,
                            !.r = RetryOperationStart(MAX_RETRIES)]
            ELSE [ws EXCEPT !.pc = "done", !.i = i2, !.paces = p2, !.r = r2]

\* The writer as the source has it.
WriterStep(ws, out) ==
    LET r2 == RetryOperationAttempt(ws.r, out)
        i2 == ws.i + CHUNK_SIZE
        p2 == IF variant = "part001" THEN ws.paces + 1 ELSE ws.paces
    IN
    CASE r2.status = "running" -> [ws EXCEPT !.r = r2]
      [] r2.status = "threw" ->
            [ws EXCEPT !.r = r2, !.pc = "threw", !.error = r2.lastError,
                       !.failedAt = ws.pc]
      [] r2.status = "returned" ->
            IF ws.pc = "clear"
            THEN [ws EXCEPT !.pc = "write", !.r = RetryOperationStart(MAX_RETRIES)]
            ELSE IF ws.mode = "single"
            THEN [ws EXCEPT !.pc = "done", !.r = r2]
            ELSE IF i2 < Len(ws.data)
            THEN [ws EXCEPT !.i = i2, !.paces = p2,
                            !.r = RetryOperationStart(MAX_RETRIES)]
            ELSE [ws EXCEPT !.pc = "done", !.i = i2, !.paces = p2, !.r = r2]

\* A remote call either takes effect and returns, or fails without effect;
\* a call that names no table (spreadsheetId undefined) can only fail.
RemoteError == "E"
CallOutcomes(id) ==
    IF id = Undefined THEN {Fail(RemoteError)} ELSE {Ok("done"), Fail(RemoteError)}

WriterAttempt ==
    /\ w.pc \in {"clear", "write"}
    /\ \E out \in CallOutcomes(w.target.id) :
          LET call == WriterCall(w) IN
          /\ dest' = IF out.ok THEN RemoteApply(dest, call) ELSE dest
          /\ issued' = Append(issued, [op |-> call.op, rows |-> call.rows,
                                       ok |-> out.ok, to |-> w.target])
          /\ w' = WriterStep(w, out)
    /\ UNCHANGED variant

\* A remote call whose effect is applied while its caller is told it failed
\* (the response is lost, or times out, after the service has committed).
RemoteLostAck(d, call) == [dest |-> RemoteApply(d, call), out |-> Fail(RemoteError)]

\* One attempt of the writer's current call, ending that way: retryOperation
\* sees a failure and goes on as after any other.
WriterAttemptLostAck ==
    /\ w.pc \in {"clear", "write"}
    /\ w.target.id # Undefined
    /\ LET call == WriterCall(w)
           lost == RemoteLostAck(dest, call) IN
       /\ dest' = lost.dest
       /\ issued' = Append(issued, [op |-> call.op, rows |-> call.rows,
                                    ok |-> lost.out.ok, to |-> w.target])
       /\ w' = WriterStep(w, lost.out)
    /\ UNCHANGED variant

\* The datasets and the previous destination contents of SpecWrite.
DataRow(k) == [cells |-> <<ToString(k)>>, from |-> 0]
OldRow == [cells |-> <<"old">>, from |-> 0]

InitWrite ==
    /\ variant \in Variants
    /\ \E n \in 0..MaxData :
          w = WriterEntry([id |-> "d1", range |-> "D"], [k \in 1..n |-> DataRow(k)])
    /\ \E n \in 0..MaxOld : dest = [k \in 1..n |-> OldRow]
    /\ issued = << >>

(***************************************************************************)
(* cleanData. A cell is a JS value, written as a string: "" the empty      *)
(* string, "null", "undefined", "#0" the number 0, anything else a text.   *)
(* A row carries, beside its cells, the index of the job that fetched it   *)
(* (`from`, history only: the program keeps no such field).                *)
(***************************************************************************)
Null == "null"
Zero == "#0"

\* cell === '' || cell === null || cell === undefined
IsEmptyCell(c) == c = "" \/ c = Null \/ c = Undefined

\* row.some(cell => cell !== '' && cell !== null && cell !== undefined)
RowHasData(cells) == \E k \in 1..Len(cells) : ~IsEmptyCell(cells[k])

RECURSIVE FilterRows(_)
FilterRows(data) ==
    IF data = << >> THEN << >>
    ELSE IF RowHasData(Head(data).cells)
         THEN <<Head(data)>> \o FilterRows(Tail(data))
         ELSE FilterRows(Tail(data))

\* Faulty variant: only the empty string is replaced (cell === '').
CleanCellsKeepNull(cells) ==
    [k \in 1..Len(cells) |-> IF cells[k] = "" THEN Zero ELSE cells[k]]

CleanCells(cells) ==
    [k \in 1..Len(cells) |-> IF IsEmptyCell(cells[k]) THEN Zero ELSE cells[k]]

\* Faulty variant: the first row is taken for a header and dropped.
CleanDataSkipHeader(data) ==
    LET kept == IF data = << >> THEN << >> ELSE FilterRows(Tail(data)) IN
    [k \in 1..Len(kept) |-> [kept[k] EXCEPT !.cells = CleanCells(@)]]

CleanData(data) ==
    LET kept == FilterRows(data) IN
    [k \in 1..Len(kept) |-> [kept[k] EXCEPT !.cells = CleanCells(@)]]

\* cleanData(data) for an argument that may be missing (null, undefined):
\* if (!data || data.length === 0) return []
CleanDataOf(arg) ==
    IF ~arg.present \/ Len(arg.rows) = 0 THEN << >> ELSE CleanData(arg.rows)

Given(data) == [present |-> TRUE, rows |-> data]
Missing == [present |-> FALSE, rows |-> << >>]

\* The cells and row sets of SpecClean: the three empty values, the number
\* 0, a text; rows of every width up to MaxWidth, ragged row sets included.
CleanCellValues == {"", Null, Undefined, Zero, "a"}
\* The row set whose k-th row has widths[k] cells, taken in turn from `flat`.
RECURSIVE SumTo(_, _)
SumTo(widths, k) == IF k = 0 THEN 0 ELSE widths[k] + SumTo(widths, k - 1)

RowSetOf(widths, flat) ==
    [k \in 1..Len(widths) |->
        [cells |-> SubSeq(flat, SumTo(widths, k - 1) + 1, SumTo(widths, k)),
         from  |-> 0]]

CleanIdle == cin = Missing /\ cout = << >> /\ cprev = << >> /\ cpass = 0

InitClean ==
    /\ \/ cin = Missing
       \/ \E n \in 0..MaxCleanRows : \E widths \in [1..n -> 0..MaxWidth] :
             /\ SumTo(widths, n) <= MaxCells
             /\ \E flat \in [1..SumTo(widths, n) -> CleanCellValues] :
                   cin = Given(RowSetOf(widths, flat))
    /\ cout = << >> /\ cprev = << >> /\ cpass = 0

\* const once = cleanData(data)
CleanFirst ==
    /\ cpass = 0
    /\ cout' = CleanDataOf(cin)
    /\ cprev' = cin.rows
    /\ cpass' = 1
    /\ UNCHANGED cin

\* cleanData(once), and so on
CleanAgain ==
    /\ cpass >= 1 /\ cpass < MaxPasses
    /\ cout' = CleanDataOf(Given(cout))
    /\ cprev' = cout
    /\ cpass' = cpass + 1
    /\ UNCHANGED cin

(***************************************************************************)
(* The configuration table and the source sheets                           *)
(***************************************************************************)
\* Two source sheets, listed in turn (every other job reads the same
\* sheet), and one destination per configuration row.
SourceOf(k) == "s" \o ToString(((k - 1) % 2) + 1)
DestOf(k) == "d" \o ToString(k)

\* One row of 'COSTDATA_DB'!C2:F: source id, source range, destination id,
\* destination range.
ConfigRow(k) == <<SourceOf(k), "R", DestOf(k), "D">>

Configs == { [k \in 1..n |-> ConfigRow(k)] : n \in 0..MaxJobs }

\* row[k] of a JS array (0-based; undefined beyond its end)
Nth(row, k) == IF k + 1 <= Len(row) THEN row[k + 1] ELSE Undefined

\* What a source range can hold when it is read: nothing, one row, or an
\* all-empty row followed by a row with a trailing empty cell.
FetchResults == { << >>, << <<"x">> >>, << <<"">>, <<"y", "">> >> }

(***************************************************************************)
(* processBatch                                                            *)
(***************************************************************************)
\* const sourceUrl = `https://docs.google.com/spreadsheets/d/${rSpreadsheetId}`
SourceUrl(id) == "https://docs.google.com/spreadsheets/d/" \o id

\* rData.map(dataRow => [...dataRow, sourceUrl]), for the job of
\* configuration row `row` (the j-th)
\* Faulty variant: the tag is built from the destination id, row[2].
TagRowsWrongColumn(rData, row, j) ==
    [k \in 1..Len(rData) |->
        [cells |-> Append(rData[k], SourceUrl(Nth(row, 2))), from |-> j]]

\* Faulty variant: the rows are passed on without the tag.
TagRowsNoTag(rData, row, j) ==
    [k \in 1..Len(rData) |-> [cells |-> rData[k], from |-> j]]

TagRows(rData, row, j) ==
    [k \in 1..Len(rData) |->
        [cells |-> Append(rData[k], SourceUrl(Nth(row, 0))), from |-> j]]

NoJob ==
    [ phase |-> "idle", r |-> NoRetry, result |-> "none",
      fetched |-> << >>, value |-> << >> ]

\* rows.slice(i, i + BATCH_SIZE) holds the jobs BatchLo(i)..BatchHi(i, n)
\* Faulty variant: slice(i, i + BATCH_SIZE + 1), a batch takes one job more.
BatchHiOverlong(i, n) == Min(i + BATCH_SIZE + 1, n)

BatchLo(i) == i + 1
BatchHi(i, n) == Min(i + BATCH_SIZE, n)
BatchOf(j) == (j - 1) \div BATCH_SIZE

\* await Promise.allSettled(batchPromises): every job of the batch settled
\* Faulty variant: a failed job counts as settled while its error-log
\* append is still under way.
BatchSettledEarly(js, lo, hi) ==
    \A j \in lo..hi : js[j].phase \in {"settled", "log"}

BatchSettled(js, lo, hi) ==
    \A j \in lo..hi : js[j].phase = "settled"

\* results.forEach(result => batchResults.push(...result.value)): in the
\* order of the batch, whatever the order `order` the jobs settled in.
RECURSIVE ConcatValues(_, _)
ConcatValues(js, idx) ==
    IF idx = << >> THEN << >>
    ELSE js[Head(idx)].value \o ConcatValues(js, Tail(idx))

\* Faulty variants: results collected in completion order; a batch with a
\* failed job dropped as a whole (Promise.all).
CollectInSettleOrder(js, lo, hi, order) == ConcatValues(js, order)

CollectAllOrNothing(js, lo, hi, order) ==
    IF \E j \in lo..hi : js[j].result = "failed" THEN << >>
    ELSE ConcatValues(js, [k \in 1..(hi - lo + 1) |-> lo + k - 1])

CollectBatch(js, lo, hi, order) ==
    ConcatValues(js, [k \in 1..(hi - lo + 1) |-> lo + k - 1])

(***************************************************************************)
(* run()                                                                   *)
(***************************************************************************)
RunIdle ==
    /\ pc = "idle" /\ outcome = "none" /\ cr = NoRetry
    /\ config = << >> /\ rows = << >> /\ bi = 0 /\ job = << >>
    /\ settleOrder = << >> /\ finalData = << >>
    /\ processedCount = 0 /\ errorCount = 0
    /\ slog = {} /\ configReads = 0 /\ statsReported = FALSE
    /\ thrown = Undefined

\* new SheetsProcessor(); run() up to its first remote call.
InitRun ==
    /\ variant \in Variants
    /\ config \in Configs
    /\ pc = "config" /\ outcome = "running"
    /\ cr = RetryOperationStart(MAX_RETRIES)
    /\ rows = << >> /\ bi = 0 /\ job = << >>
    /\ settleOrder = << >> /\ finalData = << >>
    /\ processedCount = 0 /\ errorCount = 0
    /\ slog = {} /\ configReads = 1 /\ statsReported = FALSE
    /\ thrown = Undefined
    /\ w = NoWriter
    /\ dest = [k \in 1..MaxOld |-> OldRow]
    /\ issued = << >>

\* catch (error) { ... }: index.js reads the configuration again to find
\* where to log; part_001 only logs to its file and returns.
EnterCatch(error) ==
    /\ thrown' = error
    /\ IF variant = "index"
       THEN /\ pc' = "catchConfig"
            /\ cr' = RetryOperationStart(MAX_RETRIES)
            /\ configReads' = configReads + 1
            /\ outcome' = outcome
       ELSE /\ pc' = "failed"
            /\ cr' = NoRetry
            /\ configReads' = configReads
            /\ outcome' = "resolved"

\* const rows = await this.getConfigurationData()
\* Faulty variant: the test for an empty configuration is missing.
ConfigStepNoEmptyTest(out) ==
    LET r2 == RetryOperationAttempt(cr, out) IN
    /\ pc = "config"
    /\ \/ /\ r2.status = "running"
          /\ cr' = r2
          /\ UNCHANGED <<pc, outcome, rows, job, configReads, thrown>>
       \/ /\ r2.status = "returned"
          /\ rows' = config
          /\ job' = [k \in 1..Len(config) |-> NoJob]
          /\ cr' = NoRetry
          /\ pc' = "launch" /\ outcome' = outcome
          /\ UNCHANGED <<configReads, thrown>>
       \/ /\ r2.status = "threw"
          /\ EnterCatch(r2.lastError)
          /\ UNCHANGED <<rows, job>>
    /\ UNCHANGED <<variant, varsWrite, config, bi, settleOrder, finalData,
                   processedCount, errorCount, slog, statsReported>>

\* The configuration read as the source has it.
ConfigStep(out) ==
    LET r2 == RetryOperationAttempt(cr, out) IN
    /\ pc = "config"
    /\ \/ /\ r2.status = "running"
          /\ cr' = r2
          /\ UNCHANGED <<pc, outcome, rows, job, configReads, thrown>>
       \/ /\ r2.status = "returned"
          /\ rows' = config
          /\ job' = [k \in 1..Len(config) |-> NoJob]
          /\ cr' = NoRetry
          \* if (rows.length === 0) return
          /\ IF Len(config) = 0
             THEN pc' = "done" /\ outcome' = "resolved"
             ELSE pc' = "launch" /\ outcome' = outcome
          /\ UNCHANGED <<configReads, thrown>>
       \/ /\ r2.status = "threw"
          /\ EnterCatch(r2.lastError)
          /\ UNCHANGED <<rows, job>>
    /\ UNCHANGED <<variant, varsWrite, config, bi, settleOrder, finalData,
                   processedCount, errorCount, slog, statsReported>>

ConfigAttempt == ConfigStep(Ok(config)) \/ ConfigStep(Fail(RemoteError))

\* processBatch: batch.map(async row => ...) starts every job of the batch.
StartBatch ==
    /\ pc = "launch"
    /\ pc' = "batch"
    /\ job' = [j \in 1..Len(rows) |->
                 IF BatchLo(bi) <= j /\ j <= BatchHi(bi, Len(rows))
                 THEN [job[j] EXCEPT !.phase = "fetch",
                                     !.r = RetryOperationStart(MAX_RETRIES)]
                 ELSE job[j]]
    /\ settleOrder' = << >>
    /\ UNCHANGED <<variant, varsWrite, outcome, cr, config, rows, bi, finalData,
                   processedCount, errorCount, slog, configReads, statsReported,
                   thrown>>

\* One attempt of job j's processSheetData, and what the job does with a
\* final result.
\* Faulty variant: the job is counted as processed before the test for an
\* empty result.
FetchStepCountsEmpty(j, out) ==
    LET r2 == RetryOperationAttempt(job[j].r, out) IN
    /\ pc = "batch"
    /\ job[j].phase = "fetch"
    /\ \/ /\ r2.status = "running"
          /\ job' = [job EXCEPT ![j].r = r2]
          /\ UNCHANGED <<processedCount, errorCount, settleOrder>>
       \/ /\ r2.status = "returned"
          /\ job' = [job EXCEPT ![j] = [phase |-> "settled", r |-> NoRetry,
                                        result |-> IF Len(out.value) = 0
                                                   THEN "empty" ELSE "rows",
                                        fetched |-> out.value,
                                        value |-> TagRows(out.value, rows[j], j)]]
          /\ processedCount' = processedCount + 1
          /\ settleOrder' = Append(settleOrder, j)
          /\ UNCHANGED errorCount
       \/ /\ r2.status = "threw"
          /\ errorCount' = errorCount + 1
          /\ IF variant = "index"
             THEN /\ job' = [job EXCEPT ![j].phase = "log", ![j].result = "failed",
                                        ![j].r = RetryOperationStart(MAX_RETRIES)]
                  /\ settleOrder' = settleOrder
             ELSE /\ job' = [job EXCEPT ![j].phase = "settled", ![j].result = "failed",
                                        ![j].r = NoRetry]
                  /\ settleOrder' = Append(settleOrder, j)
          /\ UNCHANGED processedCount
    /\ UNCHANGED <<variant, varsWrite, pc, outcome, cr, config, rows, bi, finalData,
                   slog, configReads, statsReported, thrown>>

\* The job as the source has it.
FetchStep(j, out) ==
    LET r2 == RetryOperationAttempt(job[j].r, out) IN
    /\ pc = "batch"
    /\ job[j].phase = "fetch"
    /\ \/ /\ r2.status = "running"
          /\ job' = [job EXCEPT ![j].r = r2]
          /\ UNCHANGED <<processedCount, errorCount, settleOrder>>
       \/ /\ r2.status = "returned"
          \* if (rData.length === 0) return []
          /\ Len(out.value) = 0
          /\ job' = [job EXCEPT ![j] = [phase |-> "settled", r |-> NoRetry,
                                        result |-> "empty", fetched |-> out.value,
                                        value |-> << >>]]
          /\ settleOrder' = Append(settleOrder, j)
          /\ UNCHANGED <<processedCount, errorCount>>
       \/ /\ r2.status = "returned"
          /\ Len(out.value) > 0
          /\ job' = [job EXCEPT ![j] = [phase |-> "settled", r |-> NoRetry,
                                        result |-> "rows", fetched |-> out.value,
                                        value |-> TagRows(out.value, rows[j], j)]]
          /\ processedCount' = processedCount + 1
          /\ settleOrder' = Append(settleOrder, j)
          /\ UNCHANGED errorCount
       \/ /\ r2.status = "threw"
          /\ errorCount' = errorCount + 1
          \* index.js: await this.logToSheet(dSpreadsheetId, error.message, true)
          /\ IF variant = "index"
             THEN /\ job' = [job EXCEPT ![j].phase = "log", ![j].result = "failed",
                                        ![j].r = RetryOperationStart(MAX_RETRIES)]
                  /\ settleOrder' = settleOrder
             ELSE /\ job' = [job EXCEPT ![j].phase = "settled", ![j].result = "failed",
                                        ![j].r = NoRetry]
                  /\ settleOrder' = Append(settleOrder, j)
          /\ UNCHANGED processedCount
    /\ UNCHANGED <<variant, varsWrite, pc, outcome, cr, config, rows, bi, finalData,
                   slog, configReads, statsReported, thrown>>

FetchAttempt(j) ==
    \/ \E res \in FetchResults : FetchStep(j, Ok(res))
    \/ FetchStep(j, Fail(RemoteError))

\* logToSheet of a failed job: one attempt of the append to 'S_LOG'!A2:B of
\* the job's own destination; a final failure is caught and dropped.
\* Faulty variant: logToSheet lets the final failure of its append escape,
\* and the batch is awaited with Promise.all, so the error reaches run().
JobLogAttemptFatal(j) ==
    /\ job[j].phase = "log"
    /\ \E out \in CallOutcomes(Nth(rows[j], 2)) :
          LET r2 == RetryOperationAttempt(job[j].r, out) IN
          /\ slog' = slog \cup {[to |-> Nth(rows[j], 2), msg |-> RemoteError,
                                   ok |-> out.ok, by |-> j]}
          /\ CASE r2.status = "running" ->
                    /\ job' = [job EXCEPT ![j].r = r2]
                    /\ settleOrder' = settleOrder
                    /\ UNCHANGED <<pc, outcome, cr, configReads, thrown>>
               [] r2.status = "returned" ->
                    /\ job' = [job EXCEPT ![j].phase = "settled", ![j].r = NoRetry]
                    /\ settleOrder' = Append(settleOrder, j)
                    /\ UNCHANGED <<pc, outcome, cr, configReads, thrown>>
               [] r2.status = "threw" ->
                    /\ job' = [job EXCEPT ![j].phase = "settled", ![j].r = NoRetry]
                    /\ settleOrder' = Append(settleOrder, j)
                    /\ EnterCatch(r2.lastError)
    /\ UNCHANGED <<variant, varsWrite, config, rows, bi, finalData,
                   processedCount, errorCount, statsReported>>

\* logToSheet as the source has it.
JobLogAttempt(j) ==
    /\ job[j].phase = "log"
    /\ \E out \in CallOutcomes(Nth(rows[j], 2)) :
          LET r2 == RetryOperationAttempt(job[j].r, out) IN
          /\ slog' = slog \cup {[to |-> Nth(rows[j], 2), msg |-> RemoteError,
                                   ok |-> out.ok, by |-> j]}
          /\ IF r2.status = "running"
             THEN /\ job' = [job EXCEPT ![j].r = r2]
                  /\ settleOrder' = settleOrder
             ELSE /\ job' = [job EXCEPT ![j].phase = "settled", ![j].r = NoRetry]
                  /\ settleOrder' = Append(settleOrder, j)
    /\ UNCHANGED <<variant, varsWrite, pc, outcome, cr, config, rows, bi, finalData,
                   processedCount, errorCount, configReads, statsReported, thrown>>

\* The batch has settled: finalData.push(...batchResults), and the loop goes
\* on to the next batch or leaves for cleanData.
JoinBatch ==
    /\ pc = "batch"
    /\ BatchSettled(job, BatchLo(bi), BatchHi(bi, Len(rows)))
    /\ finalData' = finalData \o
                    CollectBatch(job, BatchLo(bi), BatchHi(bi, Len(rows)), settleOrder)
    /\ bi' = bi + BATCH_SIZE
    /\ pc' = IF bi + BATCH_SIZE < Len(rows) THEN "launch" ELSE "clean"
    /\ UNCHANGED <<variant, varsWrite, outcome, cr, config, rows, job, settleOrder,
                   processedCount, errorCount, slog, configReads, statsReported,
                   thrown>>

\* The destination run() writes to: index.js takes lastRow[2], lastRow[3];
\* part_001 destructures [,,,, lastDestSheet, lastDestRange] = lastRow.
Destination(lastRow) ==
    IF variant = "index"
    THEN [id |-> Nth(lastRow, 2), range |-> Nth(lastRow, 3)]
    ELSE [id |-> Nth(lastRow, 4), range |-> Nth(lastRow, 5)]

\* finalData = this.cleanData(finalData), and the entry of the write.
CleanAndWrite ==
    /\ pc = "clean"
    /\ finalData' = CleanData(finalData)
    /\ w' = WriterEntry(Destination(rows[Len(rows)]), CleanData(finalData))
    /\ pc' = "write"
    /\ settleOrder' = << >>
    /\ UNCHANGED <<variant, dest, issued, outcome, cr, config, rows, bi, job,
                   processedCount, errorCount, slog, configReads,
                   statsReported, thrown>>

\* One attempt of the writer's current call, inside run().
RunWrite ==
    /\ pc = "write"
    /\ WriterAttempt
    /\ \/ /\ w'.pc \in {"clear", "write"}
          /\ UNCHANGED <<pc, outcome, cr, configReads, thrown>>
       \/ /\ w'.pc = "done"
          \* index.js: await this.logToSheet(destinationSpreadsheetId, "Done")
          /\ IF variant = "index"
             THEN pc' = "logDone" /\ cr' = RetryOperationStart(MAX_RETRIES)
                  /\ outcome' = outcome
             ELSE pc' = "done" /\ cr' = cr /\ outcome' = "resolved"
          /\ UNCHANGED <<configReads, thrown>>
       \/ /\ w'.pc = "threw"
          /\ EnterCatch(w'.error)
    /\ UNCHANGED <<config, rows, bi, job, settleOrder, finalData,
                   processedCount, errorCount, slog, statsReported>>

\* index.js: the "Done" row, then the final statistics.
\* Faulty variant: the "Done" append is made without logToSheet's try/catch,
\* so its final failure is caught by run()'s handler.
LogDoneAttemptFatal ==
    /\ pc = "logDone"
    /\ \E out \in CallOutcomes(w.target.id) :
          LET r2 == RetryOperationAttempt(cr, out) IN
          /\ slog' = slog \cup {[to |-> w.target.id, msg |-> "Done",
                                   ok |-> out.ok, by |-> 0]}
          /\ CASE r2.status = "running" ->
                    cr' = r2 /\ UNCHANGED <<pc, outcome, statsReported, configReads, thrown>>
               [] r2.status = "returned" ->
                    /\ cr' = NoRetry
                    /\ pc' = "done"
                    /\ outcome' = "resolved"
                    /\ statsReported' = TRUE
                    /\ UNCHANGED <<configReads, thrown>>
               [] r2.status = "threw" ->
                    EnterCatch(r2.lastError) /\ UNCHANGED statsReported
    /\ UNCHANGED <<variant, varsWrite, config, rows, bi, job, settleOrder, finalData,
                   processedCount, errorCount>>

\* The "Done" row as the source has it.
LogDoneAttempt ==
    /\ pc = "logDone"
    /\ \E out \in CallOutcomes(w.target.id) :
          LET r2 == RetryOperationAttempt(cr, out) IN
          /\ slog' = slog \cup {[to |-> w.target.id, msg |-> "Done",
                                   ok |-> out.ok, by |-> 0]}
          /\ IF r2.status = "running"
             THEN cr' = r2 /\ UNCHANGED <<pc, outcome, statsReported>>
             ELSE /\ cr' = NoRetry
                  /\ pc' = "done"
                  /\ outcome' = "resolved"
                  /\ statsReported' = TRUE
    /\ UNCHANGED <<variant, varsWrite, config, rows, bi, job, settleOrder, finalData,
                   processedCount, errorCount, configReads, thrown>>

\* index.js catch block: const rows = await this.getConfigurationData()
CatchConfigStep(out) ==
    LET r2 == RetryOperationAttempt(cr, out) IN
    /\ pc = "catchConfig"
    /\ \/ /\ r2.status = "running"
          /\ cr' = r2
          /\ UNCHANGED <<pc, outcome>>
       \/ /\ r2.status = "returned"
          /\ Len(out.value) > 0
          /\ cr' = RetryOperationStart(MAX_RETRIES)
          /\ pc' = "catchLog"
          /\ UNCHANGED outcome
       \* no row to log to, or the read failed too: throw error
       \/ /\ \/ r2.status = "returned" /\ Len(out.value) = 0
             \/ r2.status = "threw"
          /\ cr' = NoRetry
          /\ pc' = "failed"
          /\ outcome' = "rejected"
    /\ UNCHANGED <<variant, varsWrite, config, rows, bi, job, settleOrder, finalData,
                   processedCount, errorCount, slog, configReads, statsReported,
                   thrown>>

CatchConfigAttempt == CatchConfigStep(Ok(config)) \/ CatchConfigStep(Fail(RemoteError))

\* index.js catch block: logToSheet(lastRow[2], `FINAL ERROR: ...`), then
\* throw error.
CatchLogAttempt ==
    /\ pc = "catchLog"
    /\ \E out \in CallOutcomes(Nth(config[Len(config)], 2)) :
          LET r2 == RetryOperationAttempt(cr, out) IN
          /\ slog' = slog \cup {[to |-> Nth(config[Len(config)], 2),
                                   msg |-> "FINAL ERROR: " \o thrown,
                                   ok |-> out.ok, by |-> 0]}
          /\ IF r2.status = "running"
             THEN cr' = r2 /\ UNCHANGED <<pc, outcome>>
             ELSE cr' = NoRetry /\ pc' = "failed" /\ outcome' = "rejected"
    /\ UNCHANGED <<variant, varsWrite, config, rows, bi, job, settleOrder, finalData,
                   processedCount, errorCount, configReads, statsReported, thrown>>

(***************************************************************************)
(* The single-source transfer script (src/unnamed/part_000): read the      *)
(* source range, filter by date and clean, clear the destination range     *)
(* sized for this run's rows, write them. A row is its sequence of cells.  *)
(***************************************************************************)
DEST_START_ROW == 2
DATE_COLUMN_INDEX == 0
FILTER_DATE == "2024-04-01"

\* new Date(text).getTime(), in days since 2024-01-01; -1: Invalid Date,
\* which compares false with everything.
DateValue(text) ==
    CASE text = "2024-03-31" -> 90
      [] text = "2024-04-01" -> 91
      [] text = "2024-05-01" -> 121
      [] OTHER -> -1

\* date && new Date(date) >= new Date(FILTER_DATE)
Truthy(cell) == ~IsEmptyCell(cell) /\ cell # Zero
DateKept(row) ==
    LET date == Nth(row, DATE_COLUMN_INDEX) IN
    /\ Truthy(date)
    /\ DateValue(date) >= 0
    /\ DateValue(date) >= DateValue(FILTER_DATE)

\* rows.filter(date test).filter(row.some(non-empty)).map(empty -> 0)
RECURSIVE FilterAndCleanData(_)
FilterAndCleanData(srcRows) ==
    IF srcRows = << >> THEN << >>
    ELSE IF DateKept(Head(srcRows)) /\ RowHasData(Head(srcRows))
         THEN <<CleanCells(Head(srcRows))>> \o FilterAndCleanData(Tail(srcRows))
         ELSE FilterAndCleanData(Tail(srcRows))

\* const DEST_END_ROW = DEST_START_ROW + cleanedData.length - 1
DestEndRow(data) == DEST_START_ROW + Len(data) - 1

\* The rows of the A1 range `DB!A<a>:AE<b>`; the service reads a range whose
\* end lies before its start as the range between the two rows.
RangeRows(a, b) == Min(a, b)..(IF a < b THEN b ELSE a)

\* values.clear on rows a..b; values.update of `data` from row a.
SheetClear(sh, a, b) ==
    [k \in DOMAIN sh |-> IF k \in RangeRows(a, b) THEN << >> ELSE sh[k]]
SheetUpdate(sh, a, data) ==
    [k \in DOMAIN sh |-> IF k - a + 1 \in 1..Len(data) THEN data[k - a + 1] ELSE sh[k]]

\* The destination sheet: a header row, then blank rows.
SheetRows == 1..(DEST_START_ROW + MaxSrcRows - 1)
HeaderRow == <<"Date", "Value">>
NewSheet == [k \in SheetRows |-> IF k < DEST_START_ROW THEN HeaderRow ELSE << >>]

\* What the source range can hold: rows dated before, on and after the
\* filter date, a row without date, a row with an empty second cell.
SourceRowValues ==
    { <<"2024-03-31", "a">>, <<"2024-04-01", "">>, <<"2024-05-01", "b">>, <<"", "c">> }
SourceRanges == UNION {[1..n -> SourceRowValues] : n \in 0..MaxSrcRows}

TransferIdle ==
    /\ sheet = << >> /\ mpc = "off" /\ cleanedData = << >>
    /\ runs = 0 /\ runFailed = FALSE

InitTransfer ==
    /\ sheet = NewSheet /\ mpc = "idle" /\ cleanedData = << >>
    /\ runs = 0 /\ runFailed = FALSE

\* catch (err) { console.error(...) }: the run ends there.
TransferFails ==
    /\ mpc' = "idle" /\ runFailed' = TRUE

\* main() up to the clear: readSourceData, filterAndCleanData.
TransferRead ==
    /\ mpc = "idle" /\ runs < MaxRuns
    /\ runs' = runs + 1
    /\ \/ \E src \in SourceRanges :
             /\ cleanedData' = FilterAndCleanData(src)
             /\ mpc' = "clear" /\ runFailed' = FALSE
       \/ TransferFails /\ UNCHANGED cleanedData
    /\ UNCHANGED sheet

\* await clearDestinationRange(sheets, DEST_RANGE)
TransferClear ==
    /\ mpc = "clear"
    /\ \/ /\ sheet' = SheetClear(sheet, DEST_START_ROW, DestEndRow(cleanedData))
          /\ mpc' = "write" /\ UNCHANGED runFailed
       \/ TransferFails /\ UNCHANGED sheet
    /\ UNCHANGED <<cleanedData, runs>>

\* await writeData(sheets, DEST_RANGE, cleanedData)
TransferWrite ==
    /\ mpc = "write"
    /\ \/ /\ sheet' = SheetUpdate(sheet, DEST_START_ROW, cleanedData)
          /\ mpc' = "idle" /\ UNCHANGED runFailed
       \/ TransferFails /\ UNCHANGED sheet
    /\ UNCHANGED <<cleanedData, runs>>

(***************************************************************************)
(* Specifications                                                          *)
(***************************************************************************)
NoVariant == variant = "none"

InitSpecRetry == InitRetry /\ ThrottleIdle /\ NoVariant /\ WriteIdle /\ RunIdle /\ CleanIdle /\ TransferIdle
NextRetry == RetryAttempt /\ UNCHANGED <<varsThrottle, variant, varsWrite, varsRun, varsClean, varsTransfer>>
SpecRetry == InitSpecRetry /\ [][NextRetry]_vars

InitSpecThrottle == RetryIdle /\ InitThrottle /\ NoVariant /\ WriteIdle /\ RunIdle /\ CleanIdle /\ TransferIdle
NextThrottle ==
    \/ \E c \in Callers :
          ThrottleCall(c) /\ UNCHANGED <<varsRetry, variant, varsWrite, varsRun, varsClean, varsTransfer>>
    \/ \E c \in Callers :
          ThrottleWake(c) /\ UNCHANGED <<varsRetry, variant, varsWrite, varsRun, varsClean, varsTransfer>>
    \/ Tick /\ UNCHANGED <<varsRetry, variant, varsWrite, varsRun, varsClean, varsTransfer>>
SpecThrottle == InitSpecThrottle /\ [][NextThrottle]_vars

InitSpecWrite == RetryIdle /\ ThrottleIdle /\ InitWrite /\ RunIdle /\ CleanIdle /\ TransferIdle
NextWrite == WriterAttempt /\ UNCHANGED <<varsRetry, varsThrottle, varsRun, varsClean, varsTransfer>>
SpecWrite == InitSpecWrite /\ [][NextWrite]_vars

\* The writer against a remote service that may also lose an acknowledgement.
NextWriteLossy ==
    \/ WriterAttempt /\ UNCHANGED <<varsRetry, varsThrottle, varsRun, varsClean, varsTransfer>>
    \/ WriterAttemptLostAck /\ UNCHANGED <<varsRetry, varsThrottle, varsRun, varsClean, varsTransfer>>
SpecWriteLossy == InitSpecWrite /\ [][NextWriteLossy]_vars

Init == RetryIdle /\ ThrottleIdle /\ InitRun /\ CleanIdle /\ TransferIdle
Next ==
    \/ ConfigAttempt /\ UNCHANGED <<varsRetry, varsThrottle, varsClean, varsTransfer>>
    \/ StartBatch /\ UNCHANGED <<varsRetry, varsThrottle, varsClean, varsTransfer>>
    \/ \E j \in 1..Len(job) : FetchAttempt(j) /\ UNCHANGED <<varsRetry, varsThrottle, varsClean, varsTransfer>>
    \/ \E j \in 1..Len(job) : JobLogAttempt(j) /\ UNCHANGED <<varsRetry, varsThrottle, varsClean, varsTransfer>>
    \/ JoinBatch /\ UNCHANGED <<varsRetry, varsThrottle, varsClean, varsTransfer>>
    \/ CleanAndWrite /\ UNCHANGED <<varsRetry, varsThrottle, varsClean, varsTransfer>>
    \/ RunWrite /\ UNCHANGED <<varsRetry, varsThrottle, varsClean, varsTransfer>>
    \/ LogDoneAttempt /\ UNCHANGED <<varsRetry, varsThrottle, varsClean, varsTransfer>>
    \/ CatchConfigAttempt /\ UNCHANGED <<varsRetry, varsThrottle, varsClean, varsTransfer>>
    \/ CatchLogAttempt /\ UNCHANGED <<varsRetry, varsThrottle, varsClean, varsTransfer>>
Spec == Init /\ [][Next]_vars

\* run() under the event loop: a continuation that can run does run, and a
\* remote call that was made ends, with a result or with an error.
SpecLive == Init /\ [][Next]_vars /\ WF_vars(Next)

InitSpecClean ==
    RetryIdle /\ ThrottleIdle /\ NoVariant /\ WriteIdle /\ RunIdle /\ InitClean
    /\ TransferIdle
NextClean ==
    \/ CleanFirst /\ UNCHANGED <<varsRetry, varsThrottle, variant, varsWrite, varsRun, varsTransfer>>
    \/ CleanAgain /\ UNCHANGED <<varsRetry, varsThrottle, variant, varsWrite, varsRun, varsTransfer>>
SpecClean == InitSpecClean /\ [][NextClean]_vars

InitSpecTransfer ==
    RetryIdle /\ ThrottleIdle /\ NoVariant /\ WriteIdle /\ RunIdle /\ CleanIdle
    /\ InitTransfer
NextTransfer ==
    \/ TransferRead /\ UNCHANGED <<varsRetry, varsThrottle, variant, varsWrite, varsRun, varsClean>>
    \/ TransferClear /\ UNCHANGED <<varsRetry, varsThrottle, variant, varsWrite, varsRun, varsClean>>
    \/ TransferWrite /\ UNCHANGED <<varsRetry, varsThrottle, variant, varsWrite, varsRun, varsClean>>
SpecTransfer == InitSpecTransfer /\ [][NextTransfer]_vars

(***************************************************************************)
(* Claims                                                                  *)
(***************************************************************************)
AllFailed(h) == \A i \in 1..Len(h) : ~h[i].ok

\* C3: retryOperation with an operation that fails on every call invokes it
\* exactly maxRetries times, never once more, and then raises the error of
\* the last attempt; while fewer than maxRetries calls have failed it is
\* still retrying.
C3_ExhaustsAfterMaxAttempts ==
    AllFailed(rxHist) /\ rx.status # "idle" =>
        /\ rx.calls = Len(rxHist)
        /\ rx.calls <= rx.max
        /\ rx.status # "returned"
        /\ (rx.status = "threw") = (rx.calls = rx.max)
        /\ rx.status = "threw" => rx.lastError = rxHist[Len(rxHist)].error

C3_Witness ==
    /\ rx.max = MAX_RETRIES /\ rx.status = "threw" /\ rx.calls = MAX_RETRIES
    /\ AllFailed(rxHist)

\* C4: when the operation fails on attempts 1..k-1 and succeeds on attempt
\* k <= maxRetries, retryOperation returns the value of attempt k, has
\* called throttle exactly k times, one before each attempt, and the
\* successful call is the last call of the operation.
C4_ReturnsFirstSuccess ==
    rx.status = "returned" =>
        LET k == Len(rxHist) IN
        /\ 1 <= k /\ k <= rx.max
        /\ rxHist[k].ok
        /\ \A i \in 1..(k - 1) : ~rxHist[i].ok
        /\ rx.value = rxHist[k].value
        /\ rx.throttles = k
        /\ rx.calls = k

C4_Witness ==
    /\ rx.status = "returned" /\ rx.max = MAX_RETRIES
    /\ Len(rxHist) = MAX_RETRIES /\ rx.throttles = MAX_RETRIES

\* C5: any two returns of throttle() on the shared RateLimiter are at least
\* RATE_LIMIT_DELAY apart, whichever callers they return to.
C5_ThrottleSpacing == minGap < 0 \/ minGap >= RATE_LIMIT_DELAY

\* ceil(n / CHUNK_SIZE)
NumChunks(n) == (n + CHUNK_SIZE - 1) \div CHUNK_SIZE

RECURSIVE ConcatRows(_)
ConcatRows(log) ==
    IF log = << >> THEN << >> ELSE Head(log).rows \o ConcatRows(Tail(log))

\* The successful update/append calls of a call log, in issue order.
RECURSIVE WrittenChunks(_)
WrittenChunks(log) ==
    IF log = << >> THEN << >>
    ELSE IF Head(log).ok /\ Head(log).op # "clear"
         THEN <<Head(log)>> \o WrittenChunks(Tail(log))
         ELSE WrittenChunks(Tail(log))

\* C6: for a dataset longer than CHUNK_SIZE and no failing remote call,
\* updateDestinationInChunks issues one clear, then one update carrying the
\* first CHUNK_SIZE rows, then ceil(len / CHUNK_SIZE) - 1 appends; no call
\* carries more than CHUNK_SIZE rows and the chunks written, concatenated
\* in issue order, are the dataset.
C6_ChunkedCalls ==
    ( /\ w.pc = "done"
      /\ Len(w.data) > CHUNK_SIZE
      /\ \A k \in 1..Len(issued) : issued[k].ok )
    =>
    LET c == NumChunks(Len(w.data)) IN
    /\ Len(issued) = c + 1
    /\ issued[1].op = "clear"
    /\ issued[2].op = "update"
    /\ issued[2].rows = SubSeq(w.data, 1, CHUNK_SIZE)
    /\ \A k \in 3..(c + 1) : issued[k].op = "append"
    /\ \A k \in 1..(c + 1) : Len(issued[k].rows) <= CHUNK_SIZE
    /\ ConcatRows(SubSeq(issued, 2, c + 1)) = w.data

C6_Witness ==
    /\ w.pc = "done"
    /\ Len(w.data) > 2 * CHUNK_SIZE
    /\ Len(issued) = 4
    /\ \A k \in 1..Len(issued) : issued[k].ok

\* C7: as soon as the write of a chunk has failed MAX_RETRIES times in a
\* row, the writer has thrown that error, nothing more is issued on the
\* destination, and the destination holds the chunks written before it,
\* in order: the prefix of the dataset that ends where the failed chunk
\* starts.
C7_PartialWriteOnFailure ==
    \A k \in 1..(Len(issued) - (MAX_RETRIES - 1)) :
        (\A a \in k..(k + MAX_RETRIES - 1) : ~issued[a].ok /\ issued[a].op # "clear")
        =>
        /\ k + MAX_RETRIES - 1 = Len(issued)
        /\ w.pc = "threw" /\ w.failedAt = "write" /\ w.error = RemoteError
        /\ issued[k].rows = Chunk(w.data, w.i)
        /\ ConcatRows(WrittenChunks(issued)) = SubSeq(w.data, 1, w.i)
        /\ dest = SubSeq(w.data, 1, w.i)

C7_Witness ==
    /\ w.pc = "threw" /\ w.failedAt = "write" /\ w.mode = "chunked"
    /\ w.i = CHUNK_SIZE
    /\ dest = SubSeq(w.data, 1, CHUNK_SIZE)
    /\ Len(w.data) > 2 * CHUNK_SIZE

\* The rows of a dataset that job j fetched, in order.
RECURSIVE RowsFrom(_, _)
RowsFrom(data, j) ==
    IF data = << >> THEN << >>
    ELSE IF Head(data).from = j
         THEN <<Head(data)>> \o RowsFrom(Tail(data), j)
         ELSE RowsFrom(Tail(data), j)

Jobs == 1..Len(job)

\* The batch loop of run() has ended.
Fetched == Len(rows) > 0 /\ bi >= Len(rows)

\* C1: a job whose fetch fails on every attempt contributes no row, adds
\* exactly 1 to errorCount and nothing to processedCount; every other job
\* of its batch and of the later batches is still fetched to its end, and
\* the rows it returned are in the aggregate.
C1_FailedJobIsolated ==
    /\ errorCount = Cardinality({j \in Jobs : job[j].result = "failed"})
    /\ processedCount = Cardinality({j \in Jobs : job[j].result = "rows"})
    /\ \A j \in Jobs : job[j].result = "failed" =>
          job[j].value = << >> /\ RowsFrom(finalData, j) = << >>
    /\ pc \in {"launch", "batch", "clean"} =>
          \A j \in 1..Min(bi, Len(job)) :
             job[j].phase = "settled" /\ RowsFrom(finalData, j) = job[j].value
    /\ Fetched => \A j \in Jobs : job[j].phase = "settled"

C1_Witness ==
    /\ pc = "clean" /\ Len(job) = 3
    /\ job[1].result = "failed" /\ job[2].result = "rows" /\ job[3].result = "rows"
    /\ errorCount = 1 /\ processedCount = 2
    /\ finalData = job[2].value \o job[3].value

\* C2: batches are strictly sequential: a job has started only if every job
\* of every earlier batch has settled (its error-log append included), so
\* at most BATCH_SIZE jobs are in flight at any moment.
C2_BatchesSequential ==
    /\ \A i \in Jobs : \A j \in Jobs :
          BatchOf(i) < BatchOf(j) /\ job[j].phase # "idle" => job[i].phase = "settled"
    /\ Cardinality({j \in Jobs : job[j].phase \in {"fetch", "log"}}) <= BATCH_SIZE

C2_Witness ==
    /\ variant = "index" /\ Len(job) = 3
    /\ job[1].result = "failed" /\ job[1].phase = "settled"
    /\ job[2].phase = "settled"
    /\ job[3].phase = "fetch" /\ job[3].r.attempt = 2

\* C8: under every interleaving, every row a job contributes, and every row
\* of the aggregate, ends with the provenance tag built from the source id
\* of the job that fetched it.
TagOfJob(j) == SourceUrl(rows[j][1])
OwnTag(row) ==
    /\ row.from \in Jobs
    /\ Len(row.cells) >= 1
    /\ row.cells[Len(row.cells)] = TagOfJob(row.from)

C8_RowsCarryOwnTag ==
    /\ \A k \in 1..Len(finalData) : OwnTag(finalData[k])
    /\ \A j \in Jobs : \A k \in 1..Len(job[j].value) :
          OwnTag(job[j].value[k]) /\ job[j].value[k].from = j

C8_Witness ==
    /\ Len(finalData) >= 2
    /\ finalData[1].from # finalData[Len(finalData)].from
    /\ TagOfJob(finalData[1].from) # TagOfJob(finalData[Len(finalData)].from)
    /\ finalData[1].cells[Len(finalData[1].cells)] = TagOfJob(1)

\* C9: for every job whose fetch succeeded, the aggregate holds as many
\* rows of that job as its fetch returned rows with a non-empty cell.
NonEmptyRows(rData) == Cardinality({k \in 1..Len(rData) : RowHasData(rData[k])})

C9_CountsNonEmptyRows ==
    Fetched /\ w.pc # "idle" =>
        \A j \in Jobs : job[j].result \in {"rows", "empty"} =>
            Len(RowsFrom(finalData, j)) = NonEmptyRows(job[j].fetched)

\* C10: the aggregate lists the rows of the jobs in the order of the
\* configuration (batch by batch, and within a batch as listed), whatever
\* the order in which the jobs of a batch settled.
C10_AggregateInListedOrder ==
    /\ \A k \in 1..(Len(finalData) - 1) : finalData[k].from <= finalData[k + 1].from
    /\ pc = "clean" => finalData = ConcatValues(job, [j \in Jobs |-> j])

C10_Witness ==
    /\ pc = "clean"
    /\ settleOrder = <<2, 1>>
    /\ Len(finalData) = 3
    /\ finalData[1].from = 1 /\ finalData[3].from = 2

\* C11: the step in which a job's fetch succeeds with zero rows settles the
\* job with an empty value and changes neither errorCount nor
\* processedCount, nor the aggregate, nor any log or destination; and a job
\* that fetched zero rows has, at any later time, no row in the aggregate
\* and no append to a status log on its account.
SettlesEmpty(j) == job[j].result = "none" /\ job'[j].result = "empty"

C11_EmptyJobFrame ==
    [][ \A j \in Jobs :
          /\ SettlesEmpty(j) =>
                /\ job'[j].value = << >>
                /\ job'[j].phase = "settled"
                /\ errorCount' = errorCount
                /\ processedCount' = processedCount
                /\ finalData' = finalData
                /\ slog' = slog
                /\ issued' = issued /\ dest' = dest
          /\ job[j].result = "empty" =>
                /\ job'[j].result = "empty" /\ job'[j].value = << >>
                /\ RowsFrom(finalData', j) = << >>
                /\ \A e \in slog' : e.by # j
      ]_vars

C11_Witness ==
    /\ pc = "clean" /\ Len(job) >= 2
    /\ job[1].result = "empty" /\ job[1].fetched = << >>
    /\ job[2].result = "rows"
    /\ processedCount = 1 /\ errorCount = 0
    /\ finalData = job[2].value

\* C12: run() partitions the jobs into consecutive batches of at most
\* BATCH_SIZE: the jobs a step starts are the next ones of the configuration
\* in order, at least one and at most BATCH_SIZE of them, exactly BATCH_SIZE
\* unless the last job of the configuration is among them; a job once
\* started is never started again, and when the loop ends no job is left
\* unstarted.
StartedNow == {j \in Jobs : job[j].phase = "idle" /\ job'[j].phase # "idle"}
StartedBefore == {j \in Jobs : job[j].phase # "idle"}

C12_BatchesPartitionJobs ==
    [][ /\ StartedNow # {} =>
              /\ \A j \in StartedNow : \A i \in 1..(j - 1) :
                    i \in StartedNow \/ i \in StartedBefore
              /\ \A j \in StartedNow : \A i \in StartedBefore : i < j
              /\ Cardinality(StartedNow) <= BATCH_SIZE
              /\ Cardinality(StartedNow) = BATCH_SIZE \/ Len(rows) \in StartedNow
              /\ \A j \in StartedNow : BatchOf(j) = Cardinality(StartedBefore) \div BATCH_SIZE
        /\ pc = "launch" => StartedNow # {}
        /\ \A j \in StartedBefore : job'[j].phase # "idle"
        /\ pc' = "clean" => \A j \in 1..Len(rows') : job'[j].phase = "settled"
      ]_vars

C12_Witness ==
    /\ pc = "batch" /\ bi = BATCH_SIZE
    /\ Len(rows) = BATCH_SIZE + 1
    /\ \A j \in 1..BATCH_SIZE : job[j].phase = "settled"
    /\ job[BATCH_SIZE + 1].phase = "fetch"

\* C13: in retryOperation the backoff waits so far are, in order, 1000,
\* 2000, 4000, 8000 and then 10000 ms: one after each failed attempt that
\* another attempt follows, the k-th wait after attempt k; none after the
\* last failed attempt of an exhausted call, none after a successful attempt.
BackoffTable(k) ==
    CASE k = 1 -> 1000
      [] k = 2 -> 2000
      [] k = 3 -> 4000
      [] k = 4 -> 8000
      [] k >= 5 -> 10000

FailedBefore(h) == Cardinality({i \in 1..Len(h) : ~h[i].ok})

C13_BackoffSchedule ==
    rx.status # "idle" =>
        /\ Len(rx.sleeps) = IF rx.status = "threw"
                            THEN FailedBefore(rxHist) - 1
                            ELSE FailedBefore(rxHist)
        /\ \A k \in 1..Len(rx.sleeps) :
              /\ rx.sleeps[k] = BackoffTable(k)
              /\ ~rxHist[k].ok
              /\ k < rx.max
        /\ rx.status = "returned" => Len(rx.sleeps) = Len(rxHist) - 1

C13_Witness ==
    /\ rx.status = "threw" /\ rx.max = 7
    /\ rx.sleeps = <<1000, 2000, 4000, 8000, 10000, 10000>>

\* C14: when the final attempt of retryOperation fails, the error raised is
\* a RetryExhausted value, which no underlying error is, and its cause is
\* the error of the last attempt.
RetryExhausted(cause) == "RetryExhausted(" \o cause \o ")"

C14_RaisesRetryExhausted ==
    rx.status = "threw" =>
        /\ Raised(rx) \notin RetryErrors
        /\ Raised(rx) = RetryExhausted(rxHist[Len(rxHist)].error)

\* C15: in run() of src/index.js, while the batches are fetched no step
\* moves the run to its failure handler or settles its promise, whatever
\* the jobs' fetches and error-log appends do; the step taken once every job
\* has settled goes to cleaning, and the step after cleaning enters the
\* write; the failure handler is entered only from a failed configuration
\* read or a failed write.
InFailureHandler(p) == p \in {"catchConfig", "catchLog", "failed"}

C15_JobFailuresNeverFatal ==
    [][ variant = "index" =>
          /\ pc \in {"launch", "batch"} =>
                /\ pc' \in {"launch", "batch", "clean"}
                /\ thrown' = Undefined
                /\ outcome' = "running"
          /\ (pc = "batch" /\ \A j \in Jobs : job[j].phase = "settled") =>
                pc' = "clean"
          /\ pc = "clean" => pc' = "write" /\ w'.pc = "clear"
          /\ InFailureHandler(pc') /\ ~InFailureHandler(pc) =>
                pc \in {"config", "write"}
      ]_vars

C15_Witness ==
    /\ variant = "index" /\ pc = "write" /\ w.pc = "clear"
    /\ Len(job) >= 2
    /\ \A j \in Jobs : job[j].result = "failed" /\ \E e \in slog : e.by = j
    /\ \A e \in slog : ~e.ok
    /\ errorCount = Len(job) /\ finalData = << >>

\* C16: in both variants, when the clear or a chunk write of the write
\* phase has exhausted its retries and run() has ended, run() has rejected
\* with that write error and an append of "FINAL ERROR: <error>" to the
\* status log of the last configuration row's destination was attempted.
FinalErrorAttempted ==
    \E e \in slog : /\ e.msg = "FINAL ERROR: " \o w.error
                    /\ e.to = Nth(rows[Len(rows)], 2)

C16_WriteFailureSurfaces ==
    (w.pc = "threw" /\ pc \in {"done", "failed"}) =>
        /\ outcome = "rejected"
        /\ thrown = w.error
        /\ FinalErrorAttempted

\* C17: in both variants every clear, update and append of the write phase
\* is addressed to the table id and the range in the 3rd and 4th column of
\* the last row of the configuration.
LastRowDestination ==
    [id |-> rows[Len(rows)][3], range |-> rows[Len(rows)][4]]

C17_WritesToLastRowDestination ==
    \A k \in 1..Len(issued) : issued[k].to = LastRowDestination

\* C18: in run() of src/index.js, once the write phase has succeeded the run
\* is at the "Done" append or has ended: no error was caught and no FINAL
\* ERROR row was attempted; when the run has ended, run() has resolved and
\* a "Done" append to the status log of the destination written was
\* attempted, whether or not any attempt of it succeeded.
DoneRows == {e \in slog : e.by = 0 /\ e.msg = "Done"}
StatusRows == {e \in slog : e.by = 0}

C18_DoneLogNonFatal ==
    (variant = "index" /\ w.pc = "done") =>
        /\ pc \in {"logDone", "done"}
        /\ thrown = Undefined
        /\ StatusRows = DoneRows
        /\ \A e \in DoneRows : e.to = w.target.id /\ e.to = rows[Len(rows)][3]
        /\ pc = "logDone" => outcome = "running"
        /\ pc = "done" => outcome = "resolved" /\ DoneRows # {}

C18_Witness ==
    /\ variant = "index" /\ w.pc = "done" /\ pc = "done"
    /\ outcome = "resolved"
    /\ DoneRows # {} /\ \A e \in DoneRows : ~e.ok
    /\ dest = finalData /\ Len(finalData) > CHUNK_SIZE

\* C19: with a configuration of zero rows, run() never starts a job (no
\* source is read), issues no clear, update or append on any destination,
\* appends no status row, and leaves the destination as it was; once its
\* configuration read has returned, run() has resolved without error.
C19_ZeroJobsNoOp ==
    Len(config) = 0 =>
        /\ job = << >>
        /\ issued = << >> /\ w = NoWriter
        /\ dest = [k \in 1..MaxOld |-> OldRow]
        /\ slog = {}
        /\ (pc # "config" /\ thrown = Undefined) =>
              pc = "done" /\ outcome = "resolved" /\ configReads = 1

C19_Witness ==
    /\ Len(config) = 0 /\ pc = "done" /\ outcome = "resolved"
    /\ thrown = Undefined /\ cr = NoRetry
    /\ issued = << >> /\ slog = {}

\* C20: whenever run() of src/index.js has ended, in Done after writing, in
\* Done on an empty configuration, or in Failed, the final statistics have
\* been reported.
Ended == pc \in {"done", "failed"}

C20_StatsInEveryOutcome ==
    (variant = "index" /\ Ended) => statsReported

\* C21: in every execution of run(), whether it ends in Done or in Failed,
\* getConfigurationData has been called exactly once (the retries inside
\* that one call aside).
C21_ConfigReadOnce == configReads = 1

\* C22: in updateDestinationInChunks of both variants, whenever the write
\* of a chunk after the first is about to be attempted, or has been, one
\* pacing wait has been made after each of the chunks written before it.
ChunksWritten == Len(WrittenChunks(issued))

C22_PacingBetweenChunks ==
    (w.mode = "chunked" /\ ChunksWritten >= 1 /\ w.pc \in {"write", "threw"}) =>
        w.paces >= ChunksWritten

\* C23: cleanData is idempotent: applied to its own result it returns that
\* result, for every row set of cells '', null, undefined, 0 and a text.
C23_CleanIdempotent ==
    cpass >= 2 => cout = cprev

C23_Witness ==
    /\ cpass = 2 /\ cin.present
    /\ Len(cin.rows) = 2 /\ Len(cout) = 1
    /\ cout # cin.rows
    /\ \E k \in 1..Len(cout[1].cells) : cout[1].cells[k] = Zero
    /\ cout = cprev

\* C24: cleanData returns exactly the rows of its argument that have a cell
\* other than '', null and undefined, in their order and with their width,
\* every '', null and undefined cell replaced by the number 0 and every
\* other cell as it was; the result has no empty cell and no row that was
\* all empty; an empty or missing argument gives the empty result.
EmptyValues == {"", Null, Undefined}
HasValue(row) == \E k \in DOMAIN row.cells : row.cells[k] \notin EmptyValues
Zeroed(row) ==
    [cells |-> [k \in DOMAIN row.cells |->
                   IF row.cells[k] \in EmptyValues THEN Zero ELSE row.cells[k]],
     from |-> row.from]
RowsWithValue(data) == SelectSeq(data, HasValue)

C24_CleanKeepsRowsWithData ==
    cpass >= 1 =>
        /\ Len(cout) = Len(RowsWithValue(cprev))
        /\ \A k \in 1..Len(cout) :
              /\ cout[k] = Zeroed(RowsWithValue(cprev)[k])
              /\ Len(cout[k].cells) = Len(RowsWithValue(cprev)[k].cells)
              /\ Len(cout[k].cells) >= 1
              /\ \A c \in 1..Len(cout[k].cells) : cout[k].cells[c] \notin EmptyValues
        /\ (cpass = 1 /\ (~cin.present \/ cin.rows = << >>)) => cout = << >>

C24_Witness ==
    /\ cpass = 1 /\ cin.present
    /\ Len(cin.rows) = 2 /\ Len(cout) = 2
    /\ cin.rows[1].cells = <<Null, "a">> /\ cin.rows[2].cells = <<Zero, Undefined>>
    /\ cout[1].cells = <<Zero, "a">> /\ cout[2].cells = <<Zero, Zero>>

\* C25: whenever the write of src/index.js has ended without error, the
\* destination range holds exactly the dataset written, each row once and
\* in order, and nothing from before, also when attempts failed and were
\* retried, an attempt applied before its failure was reported included.
C25_DestinationExactWhenDone ==
    (variant = "index" /\ w.pc = "done") => dest = w.data

\* C26: in run(), a clear, update or append on the destination is issued
\* only after every job has settled; every update and append comes after
\* all the clears, of which exactly one succeeded; and when the clear has
\* failed for good no update or append has been issued and the destination
\* holds what it held before the run.
SuccessfulClearsBefore(k) ==
    {a \in 1..(k - 1) : issued[a].op = "clear" /\ issued[a].ok}

C26_WritePhaseOrdering ==
    /\ issued # << >> =>
          Fetched /\ \A j \in Jobs : job[j].phase = "settled"
    /\ \A k \in 1..Len(issued) : issued[k].op # "clear" =>
          /\ Cardinality(SuccessfulClearsBefore(k)) = 1
          /\ \A a \in 1..Len(issued) : issued[a].op = "clear" => a < k
    /\ (w.pc = "threw" /\ w.failedAt = "clear") =>
          /\ \A k \in 1..Len(issued) : issued[k].op = "clear" /\ ~issued[k].ok
          /\ dest = [k \in 1..MaxOld |-> OldRow]

C26_Witness ==
    /\ variant = "index" /\ w.pc = "threw" /\ w.failedAt = "clear"
    /\ Len(issued) = MAX_RETRIES
    /\ Len(w.data) > CHUNK_SIZE
    /\ dest = [k \in 1..MaxOld |-> OldRow]

\* C27: every execution of run() reaches Done or Failed, whatever the
\* configuration, the fetched data and the pattern of failing remote
\* calls, and from Done or Failed no further step (so no remote call) is
\* taken.
C27_RunTerminates ==
    /\ <>Ended
    /\ [][~Ended]_vars

C27_Witness ==
    /\ variant = "index" /\ pc = "failed" /\ outcome = "rejected"
    /\ w.pc = "threw" /\ w.failedAt = "write" /\ w.mode = "chunked"
    /\ Len(rows) = MaxJobs
    /\ errorCount >= 1
    /\ \E e \in slog : e.by = 0 /\ ~e.ok

\* C28: in every step of a run processedCount and errorCount do not
\* decrease, together they grow by at most 1, and a step in which one of
\* them grows is the step in which exactly one job gets its result (rows
\* for processedCount, failed for errorCount), a result a job gets once;
\* their sum never exceeds the number of jobs started, and once fetching
\* has ended the sum plus the number of jobs that returned zero rows is the
\* number of jobs.
GotResult(res) == {j \in Jobs : job[j].result = "none" /\ job'[j].result = res}
WithResult(js, res) == {j \in 1..Len(js) : js[j].result = res}
StartedJobs(js) == {j \in 1..Len(js) : js[j].phase # "idle"}

C28_CountersMonotone ==
    [][ /\ processedCount' - processedCount \in {0, 1}
        /\ errorCount' - errorCount \in {0, 1}
        /\ (processedCount' - processedCount) + (errorCount' - errorCount) <= 1
        /\ Cardinality(GotResult("rows")) = processedCount' - processedCount
        /\ Cardinality(GotResult("failed")) = errorCount' - errorCount
        /\ \A j \in Jobs : job[j].result # "none" => job'[j].result = job[j].result
        /\ processedCount' + errorCount' <= Cardinality(StartedJobs(job'))
        /\ (Len(rows') > 0 /\ bi' >= Len(rows')) =>
              processedCount' + errorCount'
                 + Cardinality(WithResult(job', "empty")) = Len(job')
      ]_vars

C28_Witness ==
    /\ Fetched /\ Len(job) = 3
    /\ job[1].result = "rows" /\ job[2].result = "failed" /\ job[3].result = "empty"
    /\ processedCount = 1 /\ errorCount = 1
    /\ settleOrder = << >>

\* C29: in the pipeline cleaning removes no row: the dataset handed to the
\* writer has as many rows as the aggregate, for each job as many as its
\* fetch returned, all-empty fetched rows included, and such a row is
\* written as its cells with every empty one replaced by 0, followed by
\* the job's tag.
RECURSIVE SumFetched(_, _)
SumFetched(js, n) ==
    IF n = 0 THEN 0 ELSE Len(js[n].fetched) + SumFetched(js, n - 1)

WrittenForm(cells, j) ==
    [c \in 1..Len(cells) |-> IF cells[c] \in EmptyValues THEN Zero ELSE cells[c]]
        \o <<TagOfJob(j)>>

RunCompleted == mpc = "idle" /\ runs >= 1 /\ ~runFailed

C30_OnlyThisRunsRows ==
    RunCompleted =>
        \A k \in DOMAIN sheet : k >= DEST_START_ROW =>
            sheet[k] = IF k - DEST_START_ROW + 1 <= Len(cleanedData)
                       THEN cleanedData[k - DEST_START_ROW + 1]
                       ELSE << >>

====
